---- MODULE Spec2Model ----
(***************************************************************************)
(* A model of bmi.wrapper.BMIWrapper (src/bmi/wrapper.py): the ctypes      *)
(* bridge that drives a native BMI library.  The bridge's methods are the  *)
(* actions; the process working directory, the bridge's attributes and the *)
(* native library's memory are the state.  The native library is not part  *)
(* of the Python sources: its entry points are modelled from the interface *)
(* table of the specification (the Native... definitions).                 *)
(***************************************************************************)
EXTENDS Integers, Sequences, FiniteSets, TLC

VARIABLES
    cwd,          \* process working directory (os.getcwd()), an absolute directory
    constructed,  \* a BMIWrapper instance exists
    known_paths,  \* BMIWrapper.known_paths, the class-level list
    engine,       \* self.engine
    original_dir, \* self.original_dir, a path string
    configfile,   \* self.configfile, or Unset while the attribute is missing
    scope,        \* position in a `with wrapper as model:` statement
    native,       \* the native library's lifecycle state and clock
    catalogue,    \* the native library's variables: name -> type tag, rank, shape
    mem,          \* the native library's variables: name -> raw memory (bytes)
    result,       \* outcome of the last host operation
    calls,        \* native entry points invoked by the last host operation, in order
    prev,         \* working directory and lifecycle state before the last host operation
    construct_dir,\* working directory when the instance was constructed
    life,         \* lifecycle state the specification ascribes to the bridge
    sum_dt,       \* timesteps used by successful updates since the last initialize
    args,         \* the last write to a native variable: operation and arguments
    via,          \* how the last host operation was invoked: call, enter or exit
    pre,          \* native memory of the variable last written, before that write
    platform,     \* platform.system()
    environ,      \* os.environ: the library search path variables
    files,        \* the files that exist, as absolute paths
    library,      \* self.library: the path the library was loaded from
    emitted,      \* log records emitted during the last host or native operation
    sink,         \* the logger last passed to set_logger
    dll_directory \* the directory last passed to SetDllDirectory

vars == << cwd, constructed, known_paths, engine, original_dir, configfile, scope,
           native, catalogue, mem, result, calls, prev, construct_dir, life,
           sum_dt, args, via, pre, platform, environ, files, library, emitted, sink,
           dll_directory >>

-----------------------------------------------------------------------------
(* Bounds of the model *)

\* the native clock is not advanced beyond this time
MaxTime == 3

\* bridges are constructed while BMIWrapper.known_paths is shorter than this
MaxPaths == 7

-----------------------------------------------------------------------------
(* Python values *)

PyNone == [t |-> "None", v |-> 0]
PyStr(s) == [t |-> "str", v |-> s]
PyInt(n) == [t |-> "int", v |-> n]

\* truth value of a Python object in `if ierr:`
Truthy(x) == x.t = "int" /\ x.v # 0

-----------------------------------------------------------------------------
(* Paths and the file system *)

\* A path string is a record: abs (leading '/'), dir (its components).
\* '' is the relative path without components, '.' is the relative path <<".">>.
PathStr(abs, dir) == [abs |-> abs, dir |-> dir]
EmptyStr == PathStr(FALSE, << >>)
Dot == PathStr(FALSE, << "." >>)

\* directories that exist
ExistingDirs == { << >>, << "w" >>, << "w", "run" >>, << "m" >> }

\* a path with the '.' components dropped
RECURSIVE Normalize(_)
Normalize(d) ==
    IF d = << >> THEN << >>
    ELSE IF Head(d) = "." THEN Normalize(Tail(d))
    ELSE << Head(d) >> \o Normalize(Tail(d))

\* the absolute directory a path names, from working directory base
Resolve(base, p) == Normalize(IF p.abs THEN p.dir ELSE base \o p.dir)

\* os.chdir(p) succeeds
ChdirOk(base, p) == p # EmptyStr /\ Resolve(base, p) \in ExistingDirs

\* a configuration file: the path of its directory and its file name
ConfigFile(abs, dir, file) == [set |-> TRUE, abs |-> abs, dir |-> dir, file |-> file]
Unset == [set |-> FALSE, abs |-> FALSE, dir |-> << >>, file |-> ""]

\* the configfile arguments the host passes: None, 'model.ini',
\* '/m/model.ini' and 'run/model.ini'
ConfigArgs ==
    { Unset,
      ConfigFile(FALSE, << >>, "model.ini"),
      ConfigFile(TRUE, << "m" >>, "model.ini"),
      ConfigFile(FALSE, << "run" >>, "model.ini") }

\* os.path.dirname(configfile)
Dirname(c) == PathStr(c.abs, c.dir)

\* os.path.dirname(self.configfile) or '.'
ConfigDir(c) == IF Dirname(c) = EmptyStr THEN Dot ELSE Dirname(c)

\* os.path.abspath(configfile)
Abspath(base, c) == [dir |-> Resolve(base, Dirname(c)), file |-> c.file]

-----------------------------------------------------------------------------
(* The native library: lifecycle and clock *)

\* status codes a native entry point returns: zero is success
Statuses == { 0, 1 }

\* the clocks of the native libraries of the model: start time (get_start_time)
\* and default timestep (get_time_step)
Clocks == { [start |-> 0, step |-> 1], [start |-> 1, step |-> 2] }

\* the optional entry points a native library may or may not export
OptionalSymbols == { "set_logger", "set_current_time" }

\* the entry points the bridge binds
NativeSymbols == { "initialize", "update", "finalize", "get_current_time", "get_time_step" }
                     \cup OptionalSymbols

\* no log callback is registered with the library
NoCallback == "none"

\* a native library that is loaded and not initialized; it exports every entry point
Loaded(clock) ==
    [initialized |-> FALSE, t |-> clock.start, start |-> clock.start, step |-> clock.step,
     exports |-> NativeSymbols, callback |-> NoCallback]

\* native initialize(config): a successful call loads the model and puts the clock
\* at the start time
NativeInitialize(n, abs_name, status) ==
    IF status = 0 THEN [n EXCEPT !.initialized = TRUE, !.t = n.start] ELSE n

\* native finalize()
NativeFinalize(n, status) ==
    IF status = 0 THEN [n EXCEPT !.initialized = FALSE] ELSE n

\* native update(dt): a successful call advances the clock by dt
NativeUpdate(n, dt, status) ==
    IF status = 0 THEN [n EXCEPT !.t = @ + dt] ELSE n

\* native get_time_step()
NativeGetTimeStep(n) == n.step

\* native get_current_time()
NativeGetCurrentTime(n) == n.t

\* one native call, as recorded in calls
Call(fn, arg, ret) == [fn |-> fn, arg |-> arg, ret |-> ret]

\* the names of the native entry points in a call sequence
CalledFns(cs) == { cs[i].fn : i \in DOMAIN cs }

\* how often entry point fn occurs in a call sequence
CountCalls(cs, fn) == Cardinality({ i \in DOMAIN cs : cs[i].fn = fn })

-----------------------------------------------------------------------------
(* Call binding *)

\* restype declared for native initialize, finalize and update
InitializeRestype == "None"
FinalizeRestype == "c_int"
UpdateRestypeNone == "None"
UpdateRestype == "c_int"

\* what a ctypes call hands back for a native function returning status:
\* with restype None the native return value is discarded
wrap(restype, status) == IF restype = "None" THEN PyNone ELSE PyInt(status)

-----------------------------------------------------------------------------
(* Outcome of a host operation *)

NoArray == [dtype |-> "", shape |-> << >>, data |-> << >>]

\* an operation that raised (raised names the exception) or returned val
Outcome(op, raised, val) ==
    [op |-> op, name |-> "", raised |-> raised, val |-> val, arr |-> NoArray]

\* an operation on variable name that raised or returned nothing
VarOutcome(op, name, raised) ==
    [op |-> op, name |-> name, raised |-> raised, val |-> PyNone, arr |-> NoArray]

\* an operation on variable name that returned array arr
ArrayOutcome(op, name, arr) ==
    [op |-> op, name |-> name, raised |-> "none", val |-> PyNone, arr |-> arr]

\* the record of a write: operation, variable and arguments
Write(op, name, start, count, arr) ==
    [op |-> op, name |-> name, start |-> start, count |-> count, arr |-> arr]
NoWrite == Write("", "", << >>, << >>, NoArray)

\* what an operation that neither loads a library nor logs leaves alone
EnvUntouched ==
    /\ UNCHANGED << platform, environ, files, dll_directory, library, sink >>
    /\ emitted' = << >>

\* the working directory and the lifecycle state an operation starts from
Before == [dir |-> cwd, life |-> life]

\* an exception raised inside a with block starts unwinding to __exit__
AfterCall(raised) == IF scope = "body" /\ raised # "none" THEN "unwind" ELSE scope

-----------------------------------------------------------------------------
(* Arrays: shapes, element types and raw memory *)

\* maximum rank: the length of every shape buffer
MAXDIMS == 6

\* the scalar type tags of TYPEMAP and CTYPESMAP
ScalarTags == { "bool", "char", "double", "float", "int" }

\* TYPEMAP: native type tag -> numpy dtype
TYPEMAP(tag) ==
    CASE tag = "bool" -> "bool"
      [] tag = "char" -> "S"
      [] tag = "double" -> "double"
      [] tag = "float" -> "float32"
      [] tag = "int" -> "int32"

\* bytes of one element of a numpy dtype
ItemSize(dtype) ==
    CASE dtype = "bool" -> 1
      [] dtype = "S" -> 0
      [] dtype = "double" -> 8
      [] dtype = "float32" -> 4
      [] dtype = "int32" -> 4

\* bytes of one element of a native variable of a scalar type tag
NativeItemSize(tag) ==
    CASE tag = "bool" -> 1
      [] tag = "char" -> 1
      [] tag = "double" -> 8
      [] tag = "float" -> 4
      [] tag = "int" -> 4

\* the product of the entries of a shape (1 for the empty shape of a scalar)
RECURSIVE Prod(_)
Prod(shape) == IF shape = << >> THEN 1 ELSE Head(shape) * Prod(Tail(shape))

\* the sum of the entries of a tuple
RECURSIVE Sum(_)
Sum(t) == IF t = << >> THEN 0 ELSE Head(t) + Sum(Tail(t))

\* the concatenation of a sequence of sequences
RECURSIVE Flatten(_)
Flatten(ss) == IF ss = << >> THEN << >> ELSE Head(ss) \o Flatten(Tail(ss))

\* row-major (C-contiguous) position of a 0-based multi-index, and back
Stride(shape, k) == Prod(SubSeq(shape, k + 1, Len(shape)))
Ravel(idx, shape) == Sum([k \in 1..Len(shape) |-> idx[k] * Stride(shape, k)])
Unravel(e, shape) == [k \in 1..Len(shape) |-> (e \div Stride(shape, k)) % shape[k]]

\* the two high bytes of the IEEE-754 representation of a small whole number
\* (all lower bytes are zero), as float32 and as double
Float32High(n) ==
    CASE n = 0 -> << 0, 0 >>
      [] n = 1 -> << 128, 63 >>
      [] n = 2 -> << 0, 64 >>
      [] n = 3 -> << 64, 64 >>
      [] n = 5 -> << 160, 64 >>
DoubleHigh(n) ==
    CASE n = 0 -> << 0, 0 >>
      [] n = 1 -> << 240, 63 >>
      [] n = 2 -> << 0, 64 >>
      [] n = 3 -> << 8, 64 >>
      [] n = 5 -> << 20, 64 >>

\* the element values the host builds arrays from
ElemVals(dtype) == IF dtype = "bool" THEN { 0, 1 } ELSE { 0, 5 }

\* the values a decoded element can be told to be
KnownVals == { 0, 1, 2, 3, 5 }

\* the little-endian bytes of element value n in a numpy array of dtype
EncodeElem(dtype, n) ==
    CASE dtype = "bool" -> << IF n = 0 THEN 0 ELSE 1 >>
      [] dtype = "S" -> << >>
      [] dtype = "int32" -> << n % 256, (n \div 256) % 256, 0, 0 >>
      [] dtype = "float32" -> << 0, 0 >> \o Float32High(n)
      [] dtype = "double" -> << 0, 0, 0, 0, 0, 0 >> \o DoubleHigh(n)

\* the element value that bytes b hold under dtype; -1 stands for every other value
DecodeElem(dtype, b) ==
    IF \E n \in KnownVals : EncodeElem(dtype, n) = b
    THEN CHOOSE n \in KnownVals : EncodeElem(dtype, n) = b
    ELSE -1

\* a host (numpy) array, C-contiguous: dtype, shape and the memory behind it
HostArray(dtype, shape, elems) ==
    [dtype |-> dtype, shape |-> shape,
     data |-> Flatten([i \in 1..Prod(shape) |-> EncodeElem(dtype, elems[i])])]

\* the elements of a host array, in row-major order
Elems(a) ==
    [i \in 1..Prod(a.shape) |->
        DecodeElem(a.dtype,
                   SubSeq(a.data, (i - 1) * ItemSize(a.dtype) + 1, i * ItemSize(a.dtype)))]

\* element-wise equality of two host arrays (numpy.testing.assert_allclose)
AllClose(a, b) == a.shape = b.shape /\ Elems(a) = Elems(b)

\* all host arrays of a dtype and shape over the element values
HostArrays(dtype, shape) ==
    { HostArray(dtype, shape, els) : els \in [1..Prod(shape) -> ElemVals(dtype)] }

-----------------------------------------------------------------------------
(* The native library: compound types *)

\* a field a compound type declares: name, scalar type tag, rank and the
\* MAXDIMS shape buffer reported for it
Field(name, type, rank, shape) ==
    [name |-> name, type |-> type, rank |-> rank,
     shape |-> [k \in 1..MAXDIMS |-> IF k <= Len(shape) THEN shape[k] ELSE 0]]

\* the compound types the native libraries of the model declare
Pump ==
    << Field("capacity", "double", 0, << >>), Field("kind", "int", 0, << >>),
       Field("open", "bool", 0, << >>) >>
Weir == << Field("levels", "float", 1, << 2 >>), Field("crest", "double", 0, << >>) >>
Grid == << Field("cells", "double", 2, << 2, 2 >>), Field("kind", "int", 0, << >>) >>
CompoundNames == { "pump", "weir", "grid" }
Compound(typename) ==
    CASE typename = "pump" -> Pump
      [] typename = "weir" -> Weir
      [] typename = "grid" -> Grid
      [] OTHER -> << >>

\* native inq_compound(name): the number of fields, 0 for an unknown type
NativeInqCompound(typename) == Len(Compound(typename))

\* the outputs of inq_compound_field as the bridge prepares them: empty
\* string buffers and rank 0
NoField == Field("", "", 0, << >>)

\* native inq_compound_field(name, index): the fields are numbered from 1; the
\* outputs stay as prepared for any other index
NativeInqCompoundField(typename, index) ==
    IF index \in 1..Len(Compound(typename)) THEN Compound(typename)[index] ELSE NoField

\* the next multiple of a at or after offset off
Align(off, a) == ((off + a - 1) \div a) * a

\* a member of a C structure: name, element type tag, and dims, empty for a
\* scalar member and << n >> for an array of n elements
Member(name, ctype, dims) == [name |-> name, ctype |-> ctype, dims |-> dims]

\* bytes of a member, and the offset of the i-th member under natural alignment
MemberSize(m) == NativeItemSize(m.ctype) * Prod(m.dims)
RECURSIVE MemberOffset(_, _)
MemberOffset(members, i) ==
    IF i = 1 THEN 0
    ELSE Align(MemberOffset(members, i - 1) + MemberSize(members[i - 1]),
               NativeItemSize(members[i].ctype))

\* bytes of a structure of the members: padded to its widest element
Sizeof(members) ==
    IF members = << >> THEN 0
    ELSE LET n == Len(members)
             widest == CHOOSE a \in { NativeItemSize(members[i].ctype) : i \in 1..n } :
                           \A i \in 1..n : NativeItemSize(members[i].ctype) <= a
         IN Align(MemberOffset(members, n) + MemberSize(members[n]), widest)

\* the structure the native library keeps for a compound type
NativeStruct(typename) ==
    [i \in 1..Len(Compound(typename)) |->
        LET f == Compound(typename)[i]
        IN Member(f.name, f.type, IF f.rank = 0 THEN << >> ELSE << Prod(SubSeq(f.shape, 1, f.rank)) >>)]

\* bytes of one element of a native variable of type tag
NativeElemSize(tag) ==
    IF tag \in ScalarTags THEN NativeItemSize(tag) ELSE Sizeof(NativeStruct(tag))

-----------------------------------------------------------------------------
(* The native library: variables *)

\* a variable of the native library: type tag, rank, the MAXDIMS shape buffer
\* it reports, and whether its memory is allocated
Var(type, rank, shape) ==
    [type |-> type, rank |-> rank,
     shape |-> [k \in 1..MAXDIMS |-> IF k <= Len(shape) THEN shape[k] ELSE 0],
     allocated |-> TRUE]

\* a variable the native library has not allocated (yet)
Unallocated(v) == [v EXCEPT !.allocated = FALSE]

\* the native libraries of the model, each with the variables it exposes
LibFlag == ("flag" :> Var("bool", 0, << >>))
LibArr1 == ("arr1" :> Var("int", 1, << 3 >>))
LibArr2 == ("arr2" :> Var("float", 2, << 2, 2 >>))
LibArr6 == ("arr6" :> Var("double", 6, << 1, 2, 1, 1, 1, 1 >>))
LibPair == ("flag" :> Var("bool", 0, << >>)) @@ ("pair" :> Var("int", 1, << 2 >>))
Libraries == { LibArr1, LibArr2, LibArr6, LibPair }

\* a library that leaves an entry behind the rank in the shape buffer
LibDirty ==
    ("arr1" :> Var("int", 1, << 1, 7 >>)) @@ ("flag" :> Var("bool", 0, << 0, 0, 0, 0, 0, 2 >>))

\* a library with a variable it has not allocated next to one that is
LibNull == ("arr1" :> Var("int", 1, << 2 >>)) @@ ("late" :> Unallocated(Var("int", 1, << 2 >>)))

\* libraries with variables of compound types: an array of pumps, one weir, an
\* unallocated pump, a matrix of pumps and a variable of a type with a matrix field
LibPumps ==
    ("pumps" :> Var("pump", 1, << 2 >>)) @@ ("weir" :> Var("weir", 0, << >>))
        @@ ("spare" :> Unallocated(Var("pump", 0, << >>)))
LibGrid == ("field" :> Var("pump", 2, << 2, 2 >>)) @@ ("grid" :> Var("grid", 0, << >>))

\* a name no library knows
UnknownName == "nope"

\* the shape of a native variable
NativeShape(d) == SubSeq(d.shape, 1, d.rank)

\* the zero-filled memory of a library's variables
ZeroMemory(cat) ==
    [n \in DOMAIN cat |->
        [b \in 1..(IF cat[n].allocated
                   THEN Prod(NativeShape(cat[n])) * NativeElemSize(cat[n].type)
                   ELSE 0) |-> 0]]

\* native get_var_type(name): the output buffer stays empty for an unknown name
NativeGetVarType(cat, name) == IF name \in DOMAIN cat THEN cat[name].type ELSE ""

\* native get_var_rank(name): the output stays 0 for an unknown name
NativeGetVarRank(cat, name) == IF name \in DOMAIN cat THEN cat[name].rank ELSE 0

\* native get_var_shape(name): fills the MAXDIMS buffer
NativeGetVarShape(cat, name) ==
    IF name \in DOMAIN cat THEN cat[name].shape ELSE [k \in 1..MAXDIMS |-> 0]

\* native get_var(name): the address of the variable's memory
NativeGetVar(m, name) == IF name \in DOMAIN m THEN m[name] ELSE << >>

\* the address a variable's memory is found at, and the NULL address
Address == "0x1000"
NULL == "NULL"

\* the pointer native get_var(name) hands out: addr is NULL for a variable that
\* is not allocated, target is the memory behind the address
NativePointer(cat, m, name) ==
    [addr |-> IF name \in DOMAIN cat /\ cat[name].allocated THEN Address ELSE NULL,
     target |-> NativeGetVar(m, name)]

\* byte i of the buffer behind a pointer; a read beyond the buffer's end is
\* undefined and yields junk
BufByte(buf, i, junk) == IF i <= Len(buf) THEN buf[i] ELSE junk

\* what a read beyond the end of a host buffer can find
JunkBytes == { 0, 255 }

\* native set_var(name, ptr): copies the variable's size in bytes from ptr
NativeSetVar(m, name, buf, junk) ==
    IF name \in DOMAIN m
    THEN [m EXCEPT ![name] = [b \in 1..Len(m[name]) |-> BufByte(buf, b, junk)]]
    ELSE m

\* the ids by which the native library knows the elements of an array of
\* structures, in order
ElementIds == << "p1", "p2", "p3", "p4" >>

\* native set_structure_field(name, id, field, ptr): writes one field of one
\* element, copied from behind ptr; nothing for an unknown variable, id or field
NativeSetStructureField(cat, m, name, id, field, buf, junk) ==
    IF /\ name \in DOMAIN cat
       /\ cat[name].allocated
       /\ cat[name].type \in CompoundNames
       /\ \E e \in 1..Prod(NativeShape(cat[name])) : ElementIds[e] = id
       /\ \E i \in DOMAIN NativeStruct(cat[name].type) :
              NativeStruct(cat[name].type)[i].name = field
    THEN LET struct == NativeStruct(cat[name].type)
             e == CHOOSE k \in 1..Prod(NativeShape(cat[name])) : ElementIds[k] = id
             i == CHOOSE k \in DOMAIN struct : struct[k].name = field
             at == (e - 1) * Sizeof(struct) + MemberOffset(struct, i)
         IN [m EXCEPT ![name] =
                [b \in 1..Len(m[name]) |->
                    IF at < b /\ b <= at + MemberSize(struct[i])
                    THEN BufByte(buf, b - at, junk)
                    ELSE m[name][b]]]
    ELSE m

\* the element at multi-index idx lies in the region [start_k, start_k + count_k)
\* of every dimension k
InRegion(idx, start, count) ==
    \A k \in 1..Len(idx) : start[k] <= idx[k] /\ idx[k] < start[k] + count[k]

\* the row-major position, within the region, of the element at multi-index idx
RegionPos(idx, start, count) == Ravel([k \in 1..Len(idx) |-> idx[k] - start[k]], count)

\* the n bytes from (0-based) offset at of the buffer behind a pointer
BufBytes(buf, at, n, junk) == [i \in 1..n |-> BufByte(buf, at + i, junk)]

\* native set_var_slice(name, start, count, ptr): copies the region's elements
\* from ptr, in row-major order
NativeSetVarSlice(cat, m, name, start, count, buf, junk) ==
    IF name \in DOMAIN m
    THEN LET shape == NativeShape(cat[name])
             isz == NativeItemSize(cat[name].type)
         IN [m EXCEPT ![name] =
                Flatten([e \in 1..Prod(shape) |->
                    LET idx == Unravel(e - 1, shape)
                    IN IF InRegion(idx, start, count)
                       THEN BufBytes(buf, RegionPos(idx, start, count) * isz, isz, junk)
                       ELSE SubSeq(m[name], (e - 1) * isz + 1, e * isz)])]
    ELSE m

-----------------------------------------------------------------------------
(* BMIWrapper: construction and lifecycle *)

\* the engine name the host constructs the bridge with
Engines == { "model" }

\* BMIWrapper.known_paths as the class defines it:
\* '.', '~/local/lib', '~/.local/lib', '/usr/local/lib', '/usr/lib'
KnownPaths0 ==
    << Dot,
       PathStr(FALSE, << "~", "local", "lib" >>),
       PathStr(FALSE, << "~", ".local", "lib" >>),
       PathStr(TRUE, << "usr", "local", "lib" >>),
       PathStr(TRUE, << "usr", "lib" >>) >>

\* os.getcwd() returning a relative path
getcwd_relative == Dot

\* os.getcwd(), as __init__ stores it in self.original_dir
getcwd == PathStr(TRUE, cwd)

-----------------------------------------------------------------------------
(* BMIWrapper: finding the library.  A string built by concatenation is the  *)
(* sequence of its pieces; a file path is a directory path and a file name.  *)

\* the values of platform.system() in the model
Platforms == { "Linux", "Darwin", "Windows", "FreeBSD" }

\* _libname() with the Unix prefix kept on Windows
libname_prefixed(system, eng) ==
    << "lib" >> \o << eng >> \o
        (IF system = "Windows" THEN << ".dll" >>
         ELSE IF system = "Darwin" THEN << ".dylib" >> ELSE << ".so" >>)

\* _libname(): prefix + self.engine + suffix
libname(system, eng) ==
    LET prefix == IF system = "Windows" THEN << >> ELSE << "lib" >>
        suffix == IF system = "Windows" THEN << ".dll" >>
                  ELSE IF system = "Darwin" THEN << ".dylib" >> ELSE << ".so" >>
    IN prefix \o << eng >> \o suffix

\* the environment variable _library_path reads on a platform
PathVariable(system) ==
    IF system = "Windows" THEN "PATH"
    ELSE IF system = "Darwin" THEN "DYLD_LIBRARY_PATH" ELSE "LD_LIBRARY_PATH"

\* the variables of os.environ in the model; a value is the sequence of the
\* directories it lists, empty when the variable is unset or ''
EnvNames == { "LD_LIBRARY_PATH", "DYLD_LIBRARY_PATH", "PATH" }
NoEnviron == [v \in EnvNames |-> << >>]

\* the user's home directory
Home == << "home" >>

\* os.path.expanduser(path)
expanduser(path) ==
    IF ~path.abs /\ path.dir # << >> /\ Head(path.dir) = "~"
    THEN PathStr(TRUE, Home \o Tail(path.dir))
    ELSE path

\* os.path.join(path, name)
Join(path, name) == [abs |-> path.abs, dir |-> path.dir, file |-> name]

\* the absolute location of a file path, from the working directory
FileAt(f) == [dir |-> Resolve(cwd, PathStr(f.abs, f.dir)), file |-> f.file]

\* os.path.exists(f) and os.path.isfile(f), for the path of a file
Exists(f) == FileAt(f) \in files

\* an engine argument that is the path of a library file, '/m/custom.so'
EngineFile == "/m/custom.so"

\* the engine argument read as a file path
EnginePath(eng) ==
    IF eng = EngineFile
    THEN [abs |-> TRUE, dir |-> << "m" >>, file |-> << "custom.so" >>]
    ELSE [abs |-> FALSE, dir |-> << >>, file |-> << eng >>]

\* '/opt/{}/lib'.format(self.engine)
OptPath(eng) == PathStr(TRUE, << "opt", eng, "lib" >>)

\* self.known_paths.append('/opt/{}/lib'.format(self.engine)) on the class's list
AppendOptPath(paths, eng) == Append(paths, OptPath(eng))

\* possible_libraries: the library name joined to the directories of the
\* environment variable, if any, and then to those of known_paths
possible_libraries(eng, paths) ==
    LET env == environ[PathVariable(platform)]
        known == IF env # << >> THEN env \o paths ELSE paths
    IN [i \in DOMAIN known |-> Join(expanduser(known[i]), libname(platform, eng))]

\* the message of the error of _library_path naming the first candidate only
NotFoundFirstOnly(candidates) ==
    [raised |-> "RuntimeError", path |-> EnginePath(""),
     message |-> [text |-> "Library not found, looked in", listed |-> SubSeq(candidates, 1, 1)]]

\* "Library not found, looked in %s" % ', '.join(possible_libraries)
NotFound(candidates) ==
    [raised |-> "RuntimeError", path |-> EnginePath(""),
     message |-> [text |-> "Library not found, looked in", listed |-> candidates]]

\* _library_path() returning path
Found(path) ==
    [raised |-> "none", path |-> path, message |-> [text |-> "", listed |-> << >>]]

\* _library_path(), with self.known_paths = paths
library_path(eng, paths) ==
    IF Exists(EnginePath(eng))
    THEN Found(EnginePath(eng))
    ELSE LET candidates == possible_libraries(eng, paths)
             hits == { i \in DOMAIN candidates : Exists(candidates[i]) }
         IN IF hits = { }
            THEN NotFound(candidates)
            ELSE Found(candidates[CHOOSE i \in hits : \A j \in hits : i <= j])

\* no library has been loaded
NoLibrary == EnginePath("")

\* no logger has been passed to set_logger
NoSink == ""

\* a file system with the model's library installed in /usr/lib
InstalledInUsrLib == { [dir |-> << "usr", "lib" >>, file |-> libname("Linux", "model")] }

\* what the operations of the time and lifecycle group leave alone
VarsUntouched ==
    /\ UNCHANGED << catalogue, mem >>
    /\ EnvUntouched
    /\ args' = NoWrite
    /\ pre' = << >>

\* no directory has been passed to SetDllDirectory
NoDllDirectory == EmptyStr

\* os.path.dirname(path) of the path of a file
LibraryDir(path) == PathStr(path.abs, path.dir)

\* os.chdir(p) into the directory of a library succeeds: the directory exists
\* when it is known to or when it holds a file
ChdirLibraryOk(base, p) ==
    /\ p # EmptyStr
    /\ \/ Resolve(base, p) \in ExistingDirs
       \/ \E f \in files : f.dir = Resolve(base, p)

\* what cdll.LoadLibrary(path) can do with a file: return the library, or raise
\* OSError for a file that cannot be loaded
LoadResults == { "loaded", "OSError" }

\* _load_library() once _library_path() returned path: the exception raised,
\* and the working directory and DLL directory it leaves behind, where the
\* loader answers outcome for a file it finds
load_library(path, outcome) ==
    LET library_dir == LibraryDir(path)
        olddir == cwd
        indir == Resolve(cwd, library_dir)
        loads(base) ==
            /\ outcome = "loaded"
            /\ [dir |-> Resolve(base, library_dir), file |-> path.file] \in files
    IN IF platform = "Windows"
       THEN IF ~ChdirLibraryOk(cwd, library_dir)
            THEN [raised |-> "OSError", cwd |-> cwd, dll |-> dll_directory]
            ELSE IF loads(indir)
            THEN [raised |-> "none", cwd |-> olddir, dll |-> Dot]
            ELSE [raised |-> "OSError", cwd |-> indir, dll |-> Dot]
       ELSE [raised |-> IF loads(cwd) THEN "none" ELSE "OSError",
             cwd |-> cwd, dll |-> dll_directory]

\* __init__(engine, configfile): the class's known_paths grows, the library is
\* looked up and loaded
BMIWrapper(eng, arg) ==
    LET paths == AppendOptPath(known_paths, eng)
        found == library_path(eng, paths)
    IN
    /\ known_paths' = paths
    /\ prev' = Before
    /\ calls' = << >>
    /\ UNCHANGED << native, sum_dt, catalogue, mem, platform, environ, files, sink >>
    /\ args' = NoWrite
    /\ pre' = << >>
    /\ emitted' = << >>
    /\ IF found.raised # "none"
       THEN /\ result' = [Outcome("__init__", found.raised, PyStr(found.message))
                             EXCEPT !.name = eng]
            /\ UNCHANGED << constructed, engine, original_dir, configfile, construct_dir,
                            life, library, cwd, dll_directory >>
       ELSE \E outcome \in LoadResults :
            LET loaded == load_library(found.path, outcome)
            IN /\ cwd' = loaded.cwd
               /\ dll_directory' = loaded.dll
               /\ IF loaded.raised = "none"
                  THEN /\ constructed' = TRUE
                       /\ engine' = eng
                       /\ original_dir' = getcwd
                       /\ configfile' = arg
                       /\ construct_dir' = cwd
                       /\ life' = "Loaded"
                       /\ library' = found.path
                       /\ result' = [Outcome("__init__", "none", PyNone) EXCEPT !.name = eng]
                  ELSE /\ result' = [Outcome("__init__", loaded.raised, PyNone)
                                        EXCEPT !.name = eng]
                       /\ UNCHANGED << constructed, engine, original_dir, configfile,
                                       construct_dir, life, library >>

\* initialize(configfile)
initialize(arg) ==
    LET cfg == IF arg # Unset THEN arg ELSE configfile IN
    /\ configfile' = cfg
    /\ prev' = Before
    /\ VarsUntouched
    /\ UNCHANGED << constructed, known_paths, engine, original_dir, construct_dir >>
    /\ IF ~cfg.set
       THEN /\ result' = Outcome("initialize", "ValueError", PyNone)
            /\ calls' = << >>
            /\ UNCHANGED << cwd, native, life, sum_dt >>
       ELSE IF ~ChdirOk(cwd, ConfigDir(cfg))
       THEN /\ result' = Outcome("initialize", "OSError", PyNone)
            /\ calls' = << >>
            /\ UNCHANGED << cwd, native, life, sum_dt >>
       ELSE \E status \in Statuses :
            LET abs_name == Abspath(cwd, cfg)
                ierr == wrap(InitializeRestype, status)
            IN /\ cwd' = Resolve(cwd, ConfigDir(cfg))
               /\ native' = NativeInitialize(native, abs_name, status)
               /\ calls' = << Call("initialize", 0, status) >>
               /\ result' = IF Truthy(ierr)
                            THEN Outcome("initialize", "RuntimeError", ierr)
                            ELSE Outcome("initialize", "none", PyNone)
               /\ life' = IF status = 0 THEN "Initialized" ELSE life
               /\ sum_dt' = IF status = 0 THEN 0 ELSE sum_dt

\* finalize() raising on a non-zero status before it restores the directory
finalize_raise_first ==
    \E status \in Statuses :
        LET ierr == wrap(FinalizeRestype, status) IN
        /\ native' = NativeFinalize(native, status)
        /\ calls' = << Call("finalize", 0, status) >>
        /\ prev' = Before
        /\ life' = "Finalized"
        /\ VarsUntouched
        /\ UNCHANGED << constructed, known_paths, engine, original_dir, construct_dir,
                        configfile, sum_dt >>
        /\ IF Truthy(ierr)
           THEN /\ result' = Outcome("finalize", "RuntimeError", ierr)
                /\ UNCHANGED cwd
           ELSE /\ cwd' = Resolve(cwd, original_dir)
                /\ result' = Outcome("finalize", "none", PyNone)

\* finalize()
finalize ==
    \E status \in Statuses :
        LET ierr == wrap(FinalizeRestype, status) IN
        /\ native' = NativeFinalize(native, status)
        /\ calls' = << Call("finalize", 0, status) >>
        /\ prev' = Before
        /\ life' = "Finalized"
        /\ VarsUntouched
        /\ UNCHANGED << constructed, known_paths, engine, original_dir, construct_dir,
                        configfile, sum_dt >>
        /\ IF ~ChdirOk(cwd, original_dir)
           THEN /\ result' = Outcome("finalize", "OSError", PyNone)
                /\ UNCHANGED cwd
           ELSE /\ cwd' = Resolve(cwd, original_dir)
                /\ result' = IF Truthy(ierr)
                             THEN Outcome("finalize", "RuntimeError", ierr)
                             ELSE Outcome("finalize", "none", PyNone)

\* get_time_step()
get_time_step == NativeGetTimeStep(native)

\* the timestep that counts as used by update(dt): the native default timestep
\* for update() and update(-1), dt itself otherwise
TimestepUsed(dt) == IF dt = -1 THEN native.step ELSE dt

\* update handing dt to native update as it is
TimeStepForAsGiven(dt) == dt

\* the timestep update(dt) hands to native update: -1 asks for the default
TimeStepFor(dt) == IF dt = -1 THEN get_time_step ELSE dt

\* the dt arguments the host passes to update: -1, a number, or no number at all
DtArgs == { PyInt(-1), PyInt(1), PyInt(2), PyNone }

\* update(dt)
update(dt) ==
    /\ prev' = Before
    /\ VarsUntouched
    /\ UNCHANGED << constructed, known_paths, engine, original_dir, construct_dir,
                    configfile, cwd, life >>
    /\ IF "update" \notin native.exports
          \/ (dt = PyInt(-1) /\ "get_time_step" \notin native.exports)
       THEN /\ result' = Outcome("update", "AttributeError", PyNone)
            /\ calls' = << >>
            /\ UNCHANGED << native, sum_dt >>
       ELSE IF dt.t # "int"
       THEN /\ result' = Outcome("update", "TypeError", PyNone)
            /\ calls' = << >>
            /\ UNCHANGED << native, sum_dt >>
       ELSE /\ native.t + TimeStepFor(dt.v) <= MaxTime
            /\ \E status \in Statuses :
                /\ native' = NativeUpdate(native, TimeStepFor(dt.v), status)
                /\ calls' = (IF dt.v = -1 THEN << Call("get_time_step", 0, 0) >> ELSE << >>)
                            \o << Call("update", TimeStepFor(dt.v), status) >>
                /\ result' = Outcome("update", "none", wrap(UpdateRestype, status))
                /\ sum_dt' = IF status = 0 THEN sum_dt + TimestepUsed(dt.v) ELSE sum_dt

\* get_current_time()
get_current_time ==
    /\ prev' = Before
    /\ IF "get_current_time" \in native.exports
       THEN /\ result' = Outcome("get_current_time", "none",
                                 PyInt(NativeGetCurrentTime(native)))
            /\ calls' = << Call("get_current_time", 0, 0) >>
       ELSE /\ result' = Outcome("get_current_time", "AttributeError", PyNone)
            /\ calls' = << >>
    /\ UNCHANGED << constructed, known_paths, engine, original_dir, construct_dir,
                    configfile, cwd, life, native, sum_dt, catalogue, mem, args, pre >>
    /\ EnvUntouched

-----------------------------------------------------------------------------
(* BMIWrapper: extensions (logging, setting the time) *)

\* the severities of the logging module
NOTSET == 0
DEBUG == 10
INFO == 20
WARN == 30
ERROR == 40
FATAL == 50

\* LEVELS_PY2F: host severity -> native level
LEVELS_PY2F == (NOTSET :> 0) @@ (DEBUG :> 1) @@ (INFO :> 2) @@ (WARN :> 3) @@ (ERROR :> 4)
                   @@ (FATAL :> 5)

\* LEVELS_F2PY: dict(zip(LEVELS_PY2F.values(), LEVELS_PY2F.keys())), and 6 -> FATAL
LEVELS_F2PY ==
    [c \in { LEVELS_PY2F[l] : l \in DOMAIN LEVELS_PY2F } |->
        CHOOSE l \in DOMAIN LEVELS_PY2F : LEVELS_PY2F[l] = c] @@ (6 :> FATAL)

\* the module's logger, logging.getLogger(__name__)
ModuleLogger == "bmi.wrapper"

\* a call of log(level, message) on a logger
LogRecord(to, level, message) == [logger |-> to, level |-> level, message |-> message]

\* the log callback the bridge registers: fortran_log_func, which wraps c_log
fortran_log_func == "c_log"

\* c_log(level, message), called by the native library
c_log(level, message) ==
    /\ native.callback = fortran_log_func
    /\ emitted' = << LogRecord(ModuleLogger, LEVELS_F2PY[level], message) >>
    /\ result' = [Outcome("c_log", "none", PyInt(level)) EXCEPT !.name = message]
    /\ calls' = << >>
    /\ prev' = Before
    /\ UNCHANGED << constructed, known_paths, engine, original_dir, construct_dir,
                    configfile, cwd, life, native, sum_dt, catalogue, mem, args, pre,
                    platform, environ, files, dll_directory, library, sink >>

\* only set_logger catching the AttributeError of a missing entry point
SwallowsLoggerOnly == { "set_logger" }

\* the operations that catch the AttributeError of a missing entry point
Swallows == { "set_logger", "set_current_time" }

\* the outcome of operation op whose entry point the library does not export
MissingSymbol(op) ==
    IF op \in Swallows
    THEN Outcome(op, "none", PyNone)
    ELSE Outcome(op, "AttributeError", PyNone)

\* set_logger(logger)
set_logger(logger) ==
    /\ prev' = Before
    /\ sink' = logger
    /\ UNCHANGED << constructed, known_paths, engine, original_dir, construct_dir,
                    configfile, cwd, life, sum_dt, catalogue, mem, args, pre,
                    platform, environ, files, dll_directory, library >>
    /\ IF "set_logger" \in native.exports
       THEN /\ native' = [native EXCEPT !.callback = fortran_log_func]
            /\ calls' = << Call("set_logger", 0, 0) >>
            /\ result' = Outcome("set_logger", "none", PyNone)
            /\ emitted' = << >>
       ELSE /\ result' = MissingSymbol("set_logger")
            /\ calls' = << >>
            /\ emitted' = IF result'.raised = "none"
                          THEN << LogRecord(logger, WARN, "Tried to set logger") >>
                          ELSE << >>
            /\ UNCHANGED native

\* native set_current_time(t)
NativeSetCurrentTime(n, t) == [n EXCEPT !.t = t]

\* set_current_time(current_time)
set_current_time(current_time) ==
    /\ prev' = Before
    /\ UNCHANGED << constructed, known_paths, engine, original_dir, construct_dir,
                    configfile, cwd, life, sum_dt, catalogue, mem, args, pre,
                    platform, environ, files, dll_directory, library, sink >>
    /\ IF "set_current_time" \in native.exports
       THEN /\ native' = NativeSetCurrentTime(native, current_time)
            /\ calls' = << Call("set_current_time", current_time, 0) >>
            /\ result' = Outcome("set_current_time", "none", PyNone)
            /\ emitted' = << >>
       ELSE /\ result' = MissingSymbol("set_current_time")
            /\ calls' = << >>
            /\ emitted' = IF result'.raised = "none"
                          THEN << LogRecord(ModuleLogger, WARN, "Tried to set current time") >>
                          ELSE << >>
            /\ UNCHANGED native

-----------------------------------------------------------------------------
(* BMIWrapper: variables *)

\* what the operations on variables leave alone
LifeUntouched ==
    /\ prev' = Before
    /\ EnvUntouched
    /\ UNCHANGED << constructed, known_paths, engine, original_dir, construct_dir,
                    configfile, cwd, life, native, sum_dt, catalogue >>

\* get_var_rank(name)
get_var_rank(name) == NativeGetVarRank(catalogue, name)

\* get_var_shape(name): the MAXDIMS buffer cut to the rank
get_var_shape(name) == SubSeq(NativeGetVarShape(catalogue, name), 1, get_var_rank(name))

\* get_var_type(name)
get_var_type(name) == NativeGetVarType(catalogue, name)

\* what a variable operation that may log leaves alone
LifeUntouchedBut(records) ==
    /\ prev' = Before
    /\ UNCHANGED << platform, environ, files, dll_directory, library, sink >>
    /\ emitted' = records
    /\ UNCHANGED << constructed, known_paths, engine, original_dir, construct_dir,
                    configfile, cwd, life, native, sum_dt, catalogue >>

\* inq_compound(name): the number of fields of a compound type
inq_compound(name) == NativeInqCompound(name)

\* the index handed to native inq_compound_field, unchanged
NativeIndexSame(index) == index

\* c_int(index + 1): the index handed to native inq_compound_field
NativeIndex(index) == index + 1

\* the native call inq_compound_field(name, index) makes
InqCompoundFieldCall(index) == Call("inq_compound_field", NativeIndex(index), 0)

\* inq_compound_field(name, index): (fieldname, fieldtype, rank, shape[:rank])
inq_compound_field(name, index) ==
    LET f == NativeInqCompoundField(name, NativeIndex(index))
    IN [name |-> f.name, type |-> f.type, rank |-> f.rank,
        shape |-> SubSeq(f.shape, 1, f.rank)]

\* a field loop that accepts fields of every rank
FieldRankAny(fieldrank) == TRUE

\* assert fieldrank <= 1
FieldRankSupported(fieldrank) == fieldrank <= 1

\* assert rank <= 1, "we can't handle >=2 dimensional compounds yet"
VarRankSupported(rank) == rank <= 1

\* iterations i .. nfields-1 of `for i in range(nfields)`: the members
\* collected, the native calls made, and the exception that ended the loop
RECURSIVE FieldLoop(_, _, _)
FieldLoop(typename, i, nfields) ==
    IF i >= nfields
    THEN [raised |-> "none", fields |-> << >>, calls |-> << >>]
    ELSE LET f == inq_compound_field(typename, i)
             call == InqCompoundFieldCall(i)
         IN IF ~FieldRankSupported(f.rank)
            THEN [raised |-> "AssertionError", fields |-> << >>, calls |-> << call >>]
            ELSE IF f.type \notin ScalarTags
            THEN [raised |-> "KeyError", fields |-> << >>, calls |-> << call >>]
            ELSE LET rest == FieldLoop(typename, i + 1, nfields)
                     member == Member(f.name, f.type,
                                      IF f.rank = 1 THEN << f.shape[1] >> ELSE << >>)
                 IN [raised |-> rest.raised,
                     fields |-> IF rest.raised = "none" THEN << member >> \o rest.fields
                                ELSE << >>,
                     calls |-> << call >> \o rest.calls]

\* make_compound_ctype(varname): the exception raised or the type built,
\* POINTER(COMPOUND) with dims empty or POINTER(ARRAY(COMPOUND, n)) with dims
\* << n >>, and the native calls made
make_compound_ctype(varname) ==
    LET compoundname == get_var_type(varname)
        nfields == inq_compound(compoundname)
        loop == FieldLoop(compoundname, 0, nfields)
        rank == get_var_rank(varname)
        head == << Call("get_var_type", 0, 0), Call("inq_compound", 0, 0) >> \o loop.calls
    IN IF loop.raised # "none"
       THEN [raised |-> loop.raised, fields |-> << >>, dims |-> << >>, calls |-> head]
       ELSE IF ~VarRankSupported(rank)
       THEN [raised |-> "AssertionError", fields |-> << >>, dims |-> << >>,
             calls |-> head \o << Call("get_var_rank", 0, 0) >>]
       ELSE IF rank = 1
       THEN [raised |-> "none", fields |-> loop.fields,
             dims |-> << get_var_shape(varname)[1] >>,
             calls |-> head \o << Call("get_var_rank", 0, 0), Call("get_var_rank", 0, 0),
                                  Call("get_var_shape", 0, 0) >>]
       ELSE [raised |-> "none", fields |-> loop.fields, dims |-> << >>,
             calls |-> head \o << Call("get_var_rank", 0, 0) >>]

\* a pointer that tests false when it is NULL or when its target is zero-filled
not_data_or_zero(data) ==
    data.addr = NULL \/ \A i \in DOMAIN data.target : data.target[i] = 0

\* `not data`: a ctypes pointer tests false exactly when it is NULL
not_data(data) == data.addr = NULL

\* the record logger.info("NULL pointer returned") emits
NullPointerRecord == LogRecord(ModuleLogger, INFO, "NULL pointer returned")

\* data.contents: the structure, or array of structures, at the address,
\* tagged with the name of its compound type
Contents(name, t, data) ==
    [dtype |-> get_var_type(name), shape |-> t.dims,
     data |-> SubSeq(data.target, 1, Sizeof(t.fields) * Prod(t.dims))]

\* struct2dict(struct): the bytes of every member of the structure at
\* (0-based) element e, by member name
struct2dict(structs, fields, e) ==
    [n \in { fields[i].name : i \in DOMAIN fields } |->
        LET i == CHOOSE j \in DOMAIN fields :
                     fields[j].name = n /\ \A k \in DOMAIN fields : fields[k].name = n => k <= j
            at == e * Sizeof(fields) + MemberOffset(fields, i)
        IN SubSeq(structs.data, at + 1, at + MemberSize(fields[i]))]

\* structs2pandas(structs): one record per structure, a single record for a
\* structure that is no array
structs2pandas(structs, fields) ==
    [dtype |-> structs.dtype, shape |-> structs.shape,
     data |-> [e \in 1..Prod(structs.shape) |-> struct2dict(structs, fields, e - 1)]]

\* the native calls get_var makes before it asks for the data
GetVarQueries ==
    << Call("get_var_rank", 0, 0), Call("get_var_rank", 0, 0), Call("get_var_shape", 0, 0),
       Call("get_var_type", 0, 0) >>

\* the array built over native memory read in column-major order
AsArrayFortran(name, m) ==
    LET dtype == TYPEMAP(get_var_type(name))
        shape == get_var_shape(name)
        size == ItemSize(dtype)
        at(idx) == Sum([k \in 1..Len(shape) |-> idx[k] * Prod(SubSeq(shape, 1, k - 1))])
    IN [dtype |-> dtype, shape |-> shape,
        data |-> Flatten([e \in 1..Prod(shape) |->
                            SubSeq(m, at(Unravel(e - 1, shape)) * size + 1,
                                   (at(Unravel(e - 1, shape)) + 1) * size)])]

\* the array get_var builds over native memory m of a variable of a numpy type
AsArray(name, m) ==
    LET dtype == TYPEMAP(get_var_type(name))
        shape == get_var_shape(name)
    IN [dtype |-> dtype, shape |-> shape,
        data |-> SubSeq(m, 1, Prod(shape) * ItemSize(dtype))]

\* get_var(name)
get_var(name) ==
    LET rank == get_var_rank(name)
        shape == get_var_shape(name)
        type_ == get_var_type(name)
        t == make_compound_ctype(name)
        data == NativePointer(catalogue, mem, name)
        typed == IF type_ \in ScalarTags THEN GetVarQueries ELSE GetVarQueries \o t.calls
    IN
    /\ UNCHANGED << mem, args, pre >>
    /\ IF Sum(SubSeq(shape, rank + 1, Len(shape))) # 0
       THEN /\ result' = VarOutcome("get_var", name, "AssertionError")
            /\ calls' = SubSeq(GetVarQueries, 1, 3)
            /\ LifeUntouched
       ELSE IF type_ = ""
       THEN /\ result' = VarOutcome("get_var", name, "ValueError")
            /\ calls' = GetVarQueries
            /\ LifeUntouched
       ELSE IF type_ \notin ScalarTags /\ t.raised # "none"
       THEN /\ result' = VarOutcome("get_var", name, t.raised)
            /\ calls' = typed
            /\ LifeUntouched
       ELSE IF not_data(data)
       THEN /\ result' = VarOutcome("get_var", name, "none")
            /\ calls' = typed \o << Call("get_var", 0, 0) >>
            /\ LifeUntouchedBut(<< NullPointerRecord >>)
       ELSE /\ result' = ArrayOutcome("get_var", name,
                                      IF type_ \in ScalarTags
                                      THEN AsArray(name, data.target)
                                      ELSE structs2pandas(Contents(name, t, data), t.fields))
            /\ calls' = typed \o << Call("get_var", 0, 0) >>
            /\ LifeUntouched

\* set_var(name, var)
set_var(name, var) ==
    /\ LifeUntouched
    /\ \E junk \in JunkBytes : mem' = NativeSetVar(mem, name, var.data, junk)
    /\ calls' = << Call("set_var", 0, 0) >>
    /\ result' = VarOutcome("set_var", name, "none")
    /\ args' = Write("set_var", name, << >>, << >>, var)
    /\ pre' = NativeGetVar(mem, name)

\* T(value): the bytes of a ctypes object of a member's type built from one
\* value: the value first, zero-filled to an array's length
CValue(member, value) ==
    LET first == EncodeElem(TYPEMAP(member.ctype), value)
    IN [b \in 1..MemberSize(member) |-> IF b <= Len(first) THEN first[b] ELSE 0]

\* set_structure_field(name, id, field, value)
set_structure_field(name, id, field, value) ==
    LET rank == get_var_rank(name)
        typename == get_var_type(name)
        nfields == inq_compound(typename)
        loop == FieldLoop(typename, 0, nfields)
        queries == << Call("get_var_rank", 0, 0), Call("get_var_rank", 0, 0),
                      Call("get_var_shape", 0, 0), Call("get_var_type", 0, 0) >>
        looped == queries \o << Call("inq_compound", 0, 0) >> \o loop.calls
        raised(exc, cs) ==
            /\ result' = VarOutcome("set_structure_field", name, exc)
            /\ calls' = cs
            /\ UNCHANGED mem
    IN
    /\ LifeUntouched
    /\ args' = Write("set_structure_field", name, << >>, << >>, NoArray)
    /\ pre' = NativeGetVar(mem, name)
    /\ IF rank # 1
       THEN raised("AssertionError", SubSeq(queries, 1, 1))
       ELSE IF typename \in ScalarTags
       THEN raised("AssertionError", queries)
       ELSE IF loop.raised # "none"
       THEN raised(loop.raised, looped)
       ELSE IF \A i \in DOMAIN loop.fields : loop.fields[i].name # field
       THEN raised("KeyError", looped)
       ELSE LET i == CHOOSE j \in DOMAIN loop.fields :
                         /\ loop.fields[j].name = field
                         /\ \A k \in DOMAIN loop.fields :
                                loop.fields[k].name = field => k <= j
            IN /\ \E junk \in JunkBytes :
                      mem' = NativeSetStructureField(catalogue, mem, name, id, field,
                                                     CValue(loop.fields[i], value), junk)
               /\ calls' = looped \o << Call("set_structure_field", 0, 0) >>
               /\ result' = VarOutcome("set_structure_field", name, "none")

\* the entries of t converted to one-based indices
CIntArrayOneBased(rank, t) == [k \in 1..rank |-> IF k <= Len(t) THEN t[k] + 1 ELSE 0]

\* (c_int*rank)(*t): the entries of t, zero-filled to the rank
CIntArray(rank, t) == [k \in 1..rank |-> IF k <= Len(t) THEN t[k] ELSE 0]

\* set_var_slice(name, start, count, var)
set_var_slice(name, start, count, var) ==
    LET rank == get_var_rank(name) IN
    /\ LifeUntouched
    /\ args' = Write("set_var_slice", name, start, count, var)
    /\ pre' = NativeGetVar(mem, name)
    /\ IF Len(start) > rank \/ Len(count) > rank
       THEN /\ result' = VarOutcome("set_var_slice", name, "IndexError")
            /\ calls' = << Call("get_var_rank", 0, 0) >>
            /\ UNCHANGED mem
       ELSE /\ \E junk \in JunkBytes :
                mem' = NativeSetVarSlice(catalogue, mem, name, CIntArray(rank, start),
                                         CIntArray(rank, count), var.data, junk)
            /\ calls' = << Call("get_var_rank", 0, 0), Call("set_var_slice", 0, 0) >>
            /\ result' = VarOutcome("set_var_slice", name, "none")

-----------------------------------------------------------------------------
(* IBmi: the read-modify-write baseline *)

\* tmp[slices] = var: the elements of var, converted to tmp's dtype, over the
\* region the slices (start_k : start_k + count_k) select
AssignSlices(tmp, start, count, var) ==
    LET isz == ItemSize(tmp.dtype)
        dims == IF Len(start) < Len(count) THEN Len(start) ELSE Len(count)
        from == [k \in 1..Len(tmp.shape) |-> IF k <= dims THEN start[k] ELSE 0]
        size == [k \in 1..Len(tmp.shape) |-> IF k <= dims THEN count[k] ELSE tmp.shape[k]]
        values == Elems(var)
    IN [tmp EXCEPT !.data =
           Flatten([e \in 1..Prod(tmp.shape) |->
               LET idx == Unravel(e - 1, tmp.shape)
               IN IF InRegion(idx, from, size)
                  THEN EncodeElem(tmp.dtype, values[RegionPos(idx, from, size) + 1])
                  ELSE SubSeq(tmp.data, (e - 1) * isz + 1, e * isz)])]

\* IBmi.set_var_slice(name, start, count, var), run on the bridge's get_var and set_var
IBmi_set_var_slice(name, start, count, var) ==
    /\ LifeUntouched
    /\ args' = Write("IBmi.set_var_slice", name, start, count, var)
    /\ pre' = NativeGetVar(mem, name)
    /\ IF get_var_type(name) \notin ScalarTags
       THEN /\ result' = VarOutcome("IBmi.set_var_slice", name, "ValueError")
            /\ calls' = GetVarQueries
            /\ UNCHANGED mem
       ELSE LET tmp == AssignSlices(AsArray(name, NativeGetVar(mem, name)), start, count, var)
            IN /\ \E junk \in JunkBytes : mem' = NativeSetVar(mem, name, tmp.data, junk)
               /\ calls' = GetVarQueries \o << Call("get_var", 0, 0), Call("set_var", 0, 0) >>
               /\ result' = VarOutcome("IBmi.set_var_slice", name, "none")

\* tmp.flat[index] = var: var[k] at the row-major position index[k]; of two
\* entries for one position the later one stays
AssignFlat(tmp, index, var) ==
    LET isz == ItemSize(tmp.dtype)
        values == Elems(var)
    IN [tmp EXCEPT !.data =
           Flatten([e \in 1..Prod(tmp.shape) |->
               LET ks == { k \in DOMAIN index : index[k] = e - 1 }
               IN IF ks = { }
                  THEN SubSeq(tmp.data, (e - 1) * isz + 1, e * isz)
                  ELSE EncodeElem(tmp.dtype,
                                  values[CHOOSE k \in ks : \A j \in ks : j <= k])])]

\* IBmi.set_var_index(name, index, var), run on the bridge's get_var and set_var
IBmi_set_var_index(name, index, var) ==
    /\ LifeUntouched
    /\ args' = Write("IBmi.set_var_index", name, index, << >>, var)
    /\ pre' = NativeGetVar(mem, name)
    /\ IF get_var_type(name) \notin ScalarTags
       THEN /\ result' = VarOutcome("IBmi.set_var_index", name, "ValueError")
            /\ calls' = GetVarQueries
            /\ UNCHANGED mem
       ELSE LET tmp == AssignFlat(AsArray(name, NativeGetVar(mem, name)), index, var)
            IN /\ \E junk \in JunkBytes : mem' = NativeSetVar(mem, name, tmp.data, junk)
               /\ calls' = GetVarQueries \o << Call("get_var", 0, 0), Call("set_var", 0, 0) >>
               /\ result' = VarOutcome("IBmi.set_var_index", name, "none")

\* BMIWrapper.set_var_index(name, index, var): super(self) is given an instance
\* where it takes a type, and raises before anything else happens
set_var_index(name, index, var) ==
    /\ LifeUntouched
    /\ args' = Write("set_var_index", name, index, << >>, var)
    /\ pre' = NativeGetVar(mem, name)
    /\ result' = VarOutcome("set_var_index", name, "TypeError")
    /\ calls' = << >>
    /\ UNCHANGED mem

-----------------------------------------------------------------------------
(* The host program: what it calls and with which arguments *)

\* the names the host asks for
NameArgs == DOMAIN catalogue \cup { UnknownName }

\* value is layout-compatible with variable name: its dtype and its shape
Compatible(name, var) ==
    /\ name \in DOMAIN catalogue
    /\ get_var_type(name) \in ScalarTags
    /\ var.dtype = TYPEMAP(get_var_type(name))
    /\ var.shape = get_var_shape(name)

\* a dtype that is not the dtype given
OtherDtype(dtype) == IF dtype = "double" THEN "int32" ELSE "double"

\* the arrays of a variable's dtype and shape
FittingArrays(name) ==
    IF name \in DOMAIN catalogue
    THEN HostArrays(TYPEMAP(get_var_type(name)), get_var_shape(name))
    ELSE { }

\* arrays that do not fit a variable: one of another dtype, and one that is too
\* short; for an unknown name, any array
UnfitArrays(name) ==
    IF name \in DOMAIN catalogue
    THEN LET dtype == TYPEMAP(get_var_type(name))
             shape == get_var_shape(name)
         IN { HostArray(OtherDtype(dtype), shape, [i \in 1..Prod(shape) |-> 5]) }
            \cup (IF Prod(shape) > 1 THEN { HostArray(dtype, << 1 >>, << 5 >>) } ELSE { })
    ELSE { HostArray("int32", << 1 >>, << 5 >>) }

\* the (start, count) pairs inside a dimension of size n, count at least 1
Spans(n) == { sc \in (0..(n - 1)) \X (1..n) : sc[1] + sc[2] <= n }

\* the regions of a shape: start and count per dimension, inside the shape
RECURSIVE Regions(_)
Regions(shape) ==
    IF shape = << >>
    THEN { [start |-> << >>, count |-> << >>] }
    ELSE { [start |-> << sc[1] >> \o r.start, count |-> << sc[2] >> \o r.count] :
             sc \in Spans(Head(shape)), r \in Regions(Tail(shape)) }

\* the variables of rank 1 and more
ArrayNames == { n \in DOMAIN catalogue : catalogue[n].rank >= 1 }

\* the host calls a method of the bridge, inside or outside a with block
Direct(method) ==
    /\ constructed
    /\ scope # "unwind"
    /\ method
    /\ scope' = AfterCall(result'.raised)
    /\ via' = "call"

New(eng, arg) ==
    /\ ~constructed
    /\ Len(known_paths) < MaxPaths
    /\ BMIWrapper(eng, arg)
    /\ UNCHANGED scope
    /\ via' = "call"

\* the host constructs a bridge, a first one or one more
Construct(eng, arg) ==
    /\ Len(known_paths) < MaxPaths
    /\ BMIWrapper(eng, arg)
    /\ UNCHANGED scope
    /\ via' = "call"

CallInitialize(arg) == Direct(initialize(arg))
CallFinalize == Direct(finalize)
CallUpdate(dt) == Direct(update(dt))
CallGetCurrentTime == Direct(get_current_time)
CallSetLogger(logger) == Direct(set_logger(logger))

\* the host sets the time forward, never back
CallSetCurrentTime(t) ==
    /\ t >= native.t
    /\ Direct(set_current_time(t))

\* the native library writes a log record through the registered callback
NativeLog(level, message) ==
    /\ c_log(level, message)
    /\ UNCHANGED scope
    /\ via' = "callback"
CallGetVar(name) == Direct(get_var(name))
CallSetVar(name, var) == Direct(set_var(name, var))
CallSetVarSlice(name, start, count, var) == Direct(set_var_slice(name, start, count, var))
CallBaselineSetVarSlice(name, start, count, var) ==
    Direct(IBmi_set_var_slice(name, start, count, var))
CallSetVarIndex(name, index, var) == Direct(set_var_index(name, index, var))
CallBaselineSetVarIndex(name, index, var) == Direct(IBmi_set_var_index(name, index, var))

\* a query of the library's types: the arguments asked with, what it
\* returned or raised, and its calls
Query(op, name, asked, raised, val, cs) ==
    /\ LifeUntouched
    /\ UNCHANGED << mem, pre >>
    /\ args' = Write(op, name, asked, << >>, NoArray)
    /\ result' = [op |-> op, name |-> name, raised |-> raised, val |-> val, arr |-> NoArray]
    /\ calls' = cs

CallInqCompoundField(name, index) ==
    Direct(Query("inq_compound_field", name, << index >>, "none",
                 [t |-> "tuple", v |-> inq_compound_field(name, index)],
                 << InqCompoundFieldCall(index) >>))
CallMakeCompoundCtype(varname) ==
    LET t == make_compound_ctype(varname)
    IN Direct(Query("make_compound_ctype", varname, << >>, t.raised,
                    IF t.raised = "none"
                    THEN [t |-> "ctype", v |-> [fields |-> t.fields, dims |-> t.dims]]
                    ELSE PyNone,
                    t.calls))
CallSetStructureField(name, id, field, value) ==
    Direct(set_structure_field(name, id, field, value))

\* `with wrapper as model:` calls __enter__; the block is entered when it returns
Enter ==
    /\ constructed
    /\ scope = "out"
    /\ initialize(Unset)
    /\ scope' = IF result'.raised = "none" THEN "body" ELSE "out"
    /\ via' = "enter"

\* leaving the block with finalize run only when the block ends normally
ExitBodyOnly ==
    /\ scope \in { "body", "unwind" }
    /\ IF scope = "body"
       THEN finalize
       ELSE /\ prev' = Before
            /\ result' = Outcome("__exit__", "none", PyNone)
            /\ calls' = << >>
            /\ VarsUntouched
            /\ UNCHANGED << constructed, known_paths, engine, original_dir, construct_dir,
                            configfile, sum_dt, cwd, native, life >>
    /\ scope' = "out"
    /\ via' = IF scope = "body" THEN "exit" ELSE "exit_raising"

\* leaving the block, at its end or by an exception, calls __exit__
Exit ==
    /\ scope \in { "body", "unwind" }
    /\ finalize
    /\ scope' = "out"
    /\ via' = IF scope = "body" THEN "exit" ELSE "exit_raising"

\* the directories the host program changes to on its own
HostDirs == { << "w" >>, << "m" >> }

\* os.chdir(d) by the host program
Chdir(d) ==
    /\ scope # "unwind"
    /\ d # cwd
    /\ cwd' = d
    /\ prev' = Before
    /\ result' = Outcome("chdir", "none", PyNone)
    /\ calls' = << >>
    /\ via' = "call"
    /\ UNCHANGED << constructed, known_paths, engine, original_dir, construct_dir,
                    configfile, scope, native, catalogue, mem, life, sum_dt, args, pre >>
    /\ EnvUntouched

-----------------------------------------------------------------------------
(* Specification of the lifecycle: one bridge, from before its construction *)

Init ==
    /\ cwd = << "w" >>
    /\ constructed = FALSE
    /\ known_paths = KnownPaths0
    /\ engine = ""
    /\ original_dir = EmptyStr
    /\ configfile = Unset
    /\ scope = "out"
    /\ native \in { Loaded(clock) : clock \in Clocks }
    /\ catalogue = LibFlag
    /\ mem = ZeroMemory(LibFlag)
    /\ result = Outcome("", "none", PyNone)
    /\ calls = << >>
    /\ prev = [dir |-> << "w" >>, life |-> "Unloaded"]
    /\ construct_dir = << >>
    /\ life = "Unloaded"
    /\ sum_dt = 0
    /\ args = NoWrite
    /\ via = "call"
    /\ pre = << >>
    /\ platform = "Linux"
    /\ environ = NoEnviron
    /\ files = InstalledInUsrLib
    /\ library = NoLibrary
    /\ emitted = << >>
    /\ sink = NoSink
    /\ dll_directory = NoDllDirectory

Next ==
    \/ \E eng \in Engines, arg \in ConfigArgs : New(eng, arg)
    \/ \E arg \in ConfigArgs : CallInitialize(arg)
    \/ CallFinalize
    \/ \E dt \in DtArgs : CallUpdate(dt)
    \/ CallGetCurrentTime
    \/ \E name \in NameArgs : CallGetVar(name)
    \/ Enter
    \/ Exit
    \/ \E d \in HostDirs : Chdir(d)

Spec == Init /\ [][Next]_vars

-----------------------------------------------------------------------------
(* Specifications of the variables: an initialized bridge over one of the      *)
(* libraries.  SpecVar: a host that writes slices, with values of the        *)
(* variable's dtype and the region's shape.  SpecRaw: a host that passes any   *)
(* array to set_var.                                                           *)

InitLib(libs) ==
    /\ cwd = << "m" >>
    /\ constructed = TRUE
    /\ known_paths = Append(KnownPaths0, PathStr(TRUE, << "opt", "model", "lib" >>))
    /\ engine = "model"
    /\ original_dir = PathStr(TRUE, << "w" >>)
    /\ configfile = ConfigFile(TRUE, << "m" >>, "model.ini")
    /\ scope = "out"
    /\ native = [Loaded([start |-> 0, step |-> 1]) EXCEPT !.initialized = TRUE]
    /\ catalogue \in libs
    /\ mem = ZeroMemory(catalogue)
    /\ result = Outcome("initialize", "none", PyNone)
    /\ calls = << Call("initialize", 0, 0) >>
    /\ prev = [dir |-> << "w" >>, life |-> "Loaded"]
    /\ construct_dir = << "w" >>
    /\ life = "Initialized"
    /\ sum_dt = 0
    /\ args = NoWrite
    /\ via = "call"
    /\ pre = << >>
    /\ platform = "Linux"
    /\ environ = NoEnviron
    /\ files = InstalledInUsrLib
    /\ library = NoLibrary
    /\ emitted = << >>
    /\ sink = NoSink
    /\ dll_directory = NoDllDirectory

InitVar == InitLib(Libraries)

NextVar ==
    \/ \E name \in NameArgs : CallGetVar(name)
    \/ \E name \in ArrayNames : \E r \in Regions(get_var_shape(name)) :
           \E var \in HostArrays(TYPEMAP(get_var_type(name)), r.count) :
               CallSetVarSlice(name, r.start, r.count, var)
    \/ \E name \in ArrayNames : \E r \in Regions(get_var_shape(name)) :
           \E var \in HostArrays(TYPEMAP(get_var_type(name)), r.count) :
               CallBaselineSetVarSlice(name, r.start, r.count, var)

SpecVar == InitVar /\ [][NextVar]_vars

NextRaw ==
    \/ \E name \in NameArgs : CallGetVar(name)
    \/ \E name \in NameArgs : \E var \in FittingArrays(name) : CallSetVar(name, var)
    \/ \E name \in NameArgs : \E var \in UnfitArrays(name) : CallSetVar(name, var)

SpecRaw == InitVar /\ [][NextRaw]_vars

-----------------------------------------------------------------------------
(* Properties of the lifecycle, checked under Spec *)

\* the native calls of the last operation that went to entry point fn
CallsTo(fn) == SelectSeq(calls, LAMBDA c : c.fn = fn)

\* the process working directory is the directory stored in original_dir
AtOriginalDir == original_dir = PathStr(TRUE, cwd)

\* C1: finalize() always ends with the working directory back at original_dir;
\* it raises RuntimeError exactly when native finalize returned a non-zero
\* status, and by then the directory has already been restored.
C1_FinalizeRestoresDirectory ==
    result.op = "finalize" =>
        /\ AtOriginalDir
        /\ Len(CallsTo("finalize")) = 1
        /\ CallsTo("finalize")[1].ret # 0 =>
               result.raised = "RuntimeError" /\ result.val = PyInt(CallsTo("finalize")[1].ret)
        /\ CallsTo("finalize")[1].ret = 0 => result.raised = "none"

\* a failing native finalize whose error leaves the directory moved back
C1_Witness ==
    /\ result.op = "finalize"
    /\ result.raised = "RuntimeError"
    /\ prev.dir # cwd
    /\ AtOriginalDir

\* C2 as stated: finalize runs on every way out of `with wrapper as model:`,
\* an error raised by initialize while entering included, and the working
\* directory is the original directory afterwards.
C2_FinalizeOnEveryExitPath ==
    (via \in { "exit", "exit_raising" } \/ (via = "enter" /\ result.raised # "none")) =>
        /\ "finalize" \in CalledFns(calls)
        /\ AtOriginalDir

\* C2: once the block has been entered, leaving it (at its end or by an error
\* raised inside it) runs finalize and the working directory is the original
\* directory afterwards; when initialize raises while entering, the block is
\* not entered and finalize is not run.
C2_FinalizeOnExitOfEnteredBlock ==
    /\ via \in { "exit", "exit_raising" } =>
           /\ "finalize" \in CalledFns(calls)
           /\ AtOriginalDir
           /\ scope = "out"
    /\ (via = "enter" /\ result.raised # "none") =>
           /\ "finalize" \notin CalledFns(calls)
           /\ scope = "out"

\* a block left by an error, with finalize moving the directory back
C2_Witness ==
    /\ via = "exit_raising"
    /\ "finalize" \in CalledFns(calls)
    /\ prev.dir # cwd
    /\ AtOriginalDir

\* C3: original_dir is the working directory at construction, and every
\* finalize() - the first and any later one - leaves the working directory
\* at the directory the bridge was constructed in.
C3_RestoresConstructionDirectory ==
    /\ constructed => original_dir = PathStr(TRUE, construct_dir)
    /\ result.op = "finalize" => cwd = construct_dir

\* a second finalize, after the directory was changed again, on a bridge
\* constructed somewhere else than where the program started
C3_Witness ==
    /\ result.op = "finalize"
    /\ prev.life = "Finalized"
    /\ prev.dir # cwd
    /\ cwd = construct_dir
    /\ construct_dir # << "w" >>

\* C4: when native initialize returns a non-zero status, initialize() raises an
\* error carrying that status, with the working directory at the
\* configuration directory.
C4_InitializeRaisesOnFailure ==
    (result.op = "initialize" /\ Len(CallsTo("initialize")) = 1
        /\ CallsTo("initialize")[1].ret # 0) =>
        /\ result.raised = "RuntimeError"
        /\ result.val = PyInt(CallsTo("initialize")[1].ret)
        /\ cwd = Resolve(prev.dir, ConfigDir(configfile))

\* the operations C5 is about
QueryOps == { "update", "get_current_time", "get_var", "set_var" }

\* C5: a query or update operation on a bridge that has been finalized, or that
\* has not been initialized, fails in the host and reaches no native entry
\* point.
C5_NoNativeCallOutsideInitialized ==
    (result.op \in QueryOps /\ prev.life \in { "Loaded", "Finalized" }) =>
        /\ result.raised # "none"
        /\ calls = << >>

\* C6 as stated: a non-zero status of native update is surfaced as an error,
\* not as a normal completion, and native update is called once.
C6_UpdateRaisesOnFailure ==
    (result.op = "update" /\ Len(CallsTo("update")) >= 1
        /\ CallsTo("update")[1].ret # 0) =>
        /\ result.raised # "none"
        /\ Len(CallsTo("update")) = 1

\* C6: update(dt) that reaches the library calls native update exactly once
\* and returns its status, zero or not, as the return value; it raises nothing.
C6_UpdateReturnsStatus ==
    (result.op = "update" /\ "update" \in CalledFns(calls)) =>
        /\ Len(CallsTo("update")) = 1
        /\ result.raised = "none"
        /\ result.val = PyInt(CallsTo("update")[1].ret)

\* a failing native update handed back as the return value
C6_Witness ==
    /\ result.op = "update"
    /\ Len(CallsTo("update")) = 1
    /\ CallsTo("update")[1].ret = 1
    /\ result.raised = "none"
    /\ result.val = PyInt(1)

\* C7: on an initialized model the current time is the start time plus the sum
\* of the timesteps used by the successful updates since initialize: the
\* native default timestep for update() and update(-1), dt for update(dt);
\* the timestep handed to native update is that timestep.
C7_CurrentTime ==
    /\ life = "Initialized" => NativeGetCurrentTime(native) = native.start + sum_dt
    /\ (life = "Initialized" /\ result.op = "get_current_time") =>
           result.val = PyInt(native.start + sum_dt)
    /\ (result.op = "update" /\ Len(CallsTo("update")) = 1) =>
           CallsTo("update")[1].arg > 0

\* start 0, step 1: update() then update(2) read back as 3
C7_Witness ==
    /\ life = "Initialized"
    /\ result.op = "get_current_time"
    /\ native.start = 0
    /\ native.step = 1
    /\ sum_dt = 3
    /\ result.val = PyInt(3)

-----------------------------------------------------------------------------
(* Properties of the variables, checked under SpecRaw and SpecVar *)

C9_SetVarValidates ==
    (result.op = "set_var" /\ ~Compatible(args.name, args.arr)) =>
        /\ result.raised # "none"
        /\ "set_var" \notin CalledFns(calls)
        /\ NativeGetVar(mem, args.name) = pre

\* the operations that write a slice: the bridge's and the IBmi baseline
SliceOps == { "set_var_slice", "IBmi.set_var_slice" }

\* C10: after set_var_slice(name, start, count, value) the variable, read in
\* full, holds the elements of value (in row-major order) at the positions of
\* the region [start_k, start_k + count_k) and, everywhere else, the elements
\* it held before.
C10_SliceWritesExactlyTheRegion ==
    (result.op \in SliceOps /\ result.raised = "none") =>
        LET shape == get_var_shape(args.name)
            before == Elems(AsArray(args.name, pre))
            after == Elems(AsArray(args.name, NativeGetVar(mem, args.name)))
            value == Elems(args.arr)
        IN \A e \in 1..Prod(shape) :
               LET idx == Unravel(e - 1, shape)
               IN after[e] = IF InRegion(idx, args.start, args.count)
                             THEN value[RegionPos(idx, args.start, args.count) + 1]
                             ELSE before[e]

\* start=(0,), count=(1,), value=[5] on a rank-1 variable that held 0, 5, 0
C10_Witness ==
    /\ result.op = "set_var_slice"
    /\ result.raised = "none"
    /\ args.name = "arr1"
    /\ args.start = << 0 >>
    /\ args.count = << 1 >>
    /\ Elems(args.arr) = << 5 >>
    /\ Elems(AsArray("arr1", pre)) = << 0, 5, 0 >>
    /\ Elems(AsArray("arr1", NativeGetVar(mem, "arr1"))) = << 5, 5, 0 >>

-----------------------------------------------------------------------------
(* Specification of the library lookup: bridges constructed on any platform, *)
(* with or without a library search path in the environment, over file       *)
(* systems that hold the library in some of the directories.                 *)

\* the engine arguments of the lookup: a name and the path of a library file
LoadEngines == { "model", EngineFile }

\* the directories a library file may be installed in
LibDirs ==
    { << "e" >>, << "w" >>, << "home", ".local", "lib" >>, << "opt", "model", "lib" >>,
      << "usr", "lib" >> }

\* the directories a search path variable lists, when it is set: '/e:/usr/lib'
EnvDirs == << PathStr(TRUE, << "e" >>), PathStr(TRUE, << "usr", "lib" >>) >>

InitLoad ==
    /\ cwd = << "w" >>
    /\ constructed = FALSE
    /\ known_paths = KnownPaths0
    /\ engine = ""
    /\ original_dir = EmptyStr
    /\ configfile = Unset
    /\ scope = "out"
    /\ native = Loaded([start |-> 0, step |-> 1])
    /\ catalogue = LibFlag
    /\ mem = ZeroMemory(LibFlag)
    /\ result = Outcome("", "none", PyNone)
    /\ calls = << >>
    /\ prev = [dir |-> << "w" >>, life |-> "Unloaded"]
    /\ construct_dir = << >>
    /\ life = "Unloaded"
    /\ sum_dt = 0
    /\ args = NoWrite
    /\ via = "call"
    /\ pre = << >>
    /\ platform \in Platforms
    /\ environ \in { NoEnviron } \cup { [NoEnviron EXCEPT ![v] = EnvDirs] : v \in EnvNames }
    /\ \E dirs \in SUBSET LibDirs, own \in SUBSET { FileAt(EnginePath(EngineFile)) } :
           files = { [dir |-> d, file |-> libname(platform, "model")] : d \in dirs } \cup own
    /\ library = NoLibrary
    /\ emitted = << >>
    /\ sink = NoSink
    /\ dll_directory = NoDllDirectory

NextLoad == \E eng \in LoadEngines : Construct(eng, Unset)

SpecLoad == InitLoad /\ [][NextLoad]_vars

\* the library name the specification gives for an engine on the platform
ExpectedLibname(eng) ==
    CASE platform = "Darwin" -> << "lib", eng, ".dylib" >>
      [] platform = "Windows" -> << eng, ".dll" >>
      [] OTHER -> << "lib", eng, ".so" >>

\* the index of the first candidate that exists, 0 if none does
FirstExisting(candidates) ==
    LET hits == { i \in DOMAIN candidates : Exists(candidates[i]) }
    IN IF hits = { } THEN 0 ELSE CHOOSE i \in hits : \A j \in hits : i <= j

\* C16: when the engine is no existing file and no candidate exists, __init__
\* fails with the not-found error, and the error lists the candidates that
\* were searched - the directories of the environment variable, then those of
\* known_paths, each with the library name - one entry per candidate, in
\* search order.
C16_NotFoundListsCandidates ==
    result.op = "__init__" =>
        LET candidates == possible_libraries(result.name, known_paths)
            nothing == ~Exists(EnginePath(result.name)) /\ FirstExisting(candidates) = 0
        IN /\ nothing <=> result.raised = "RuntimeError"
           /\ nothing =>
                  /\ result.val.v.listed = candidates
                  /\ Len(result.val.v.listed) =
                         Len(environ[PathVariable(platform)]) + Len(known_paths)

\* a failed lookup with a search path in the environment: two directories of
\* the variable and six of known_paths are listed
C16_Witness ==
    /\ result.op = "__init__"
    /\ result.raised = "RuntimeError"
    /\ environ[PathVariable(platform)] = EnvDirs
    /\ Len(result.val.v.listed) = 8
    /\ result.val.v.listed[1] = Join(PathStr(TRUE, << "e" >>), libname(platform, "model"))
    /\ result.val.v.listed[8] = Join(OptPath("model"), libname(platform, "model"))

\* the search order C17 states, for an engine
StatedOrder(eng) ==
    environ[PathVariable(platform)] \o
        << Dot,
           PathStr(FALSE, << "~", "local", "lib" >>),
           PathStr(FALSE, << "~", ".local", "lib" >>),
           OptPath(eng),
           PathStr(TRUE, << "usr", "local", "lib" >>),
           PathStr(TRUE, << "usr", "lib" >>) >>

\* C17: the library loaded is the engine argument when that is an existing
\* file, and otherwise the first existing candidate in the order: environment
\* directories, '.', '~/local/lib', '~/.local/lib', '/opt/<engine>/lib',
\* '/usr/local/lib', '/usr/lib'.
C17_SearchOrder ==
    (result.op = "__init__" /\ result.raised = "none") =>
        LET order == StatedOrder(result.name)
            candidates == [i \in DOMAIN order |->
                              Join(expanduser(order[i]), ExpectedLibname(result.name))]
        IN IF Exists(EnginePath(result.name))
           THEN library = EnginePath(result.name)
           ELSE /\ FirstExisting(candidates) # 0
                /\ library = candidates[FirstExisting(candidates)]

\* C18: the library name is 'lib<engine>.so' on platforms other than Darwin and
\* Windows, 'lib<engine>.dylib' on Darwin and '<engine>.dll' on Windows, and it
\* is the file name of every candidate and of the library that is loaded.
C18_Libname ==
    /\ \A eng \in LoadEngines : libname(platform, eng) = ExpectedLibname(eng)
    /\ (result.op = "__init__" /\ result.raised = "none"
          /\ ~Exists(EnginePath(result.name))) =>
           library.file = ExpectedLibname(result.name)
    /\ (result.op = "__init__" /\ result.raised = "RuntimeError") =>
           \A i \in DOMAIN result.val.v.listed :
               result.val.v.listed[i].file = ExpectedLibname(result.name)

\* a library loaded on Windows as model.dll
C18_Witness ==
    /\ result.op = "__init__"
    /\ result.raised = "none"
    /\ platform = "Windows"
    /\ result.name = "model"
    /\ library.file = << "model", ".dll" >>

-----------------------------------------------------------------------------
(* Specification of the extensions: a bridge over a library that exports the *)
(* optional entry points or not, a host that sets loggers and times, and a   *)
(* library that logs.                                                        *)

\* the entry points a library of this specification may lack
MaybeMissing == OptionalSymbols \cup { "get_current_time", "get_time_step" }

\* the loggers the host passes to set_logger
Loggers == { "test", "app" }

\* the levels and messages the native library logs with
NativeLevels == 0..6
Messages == { "m" }

InitLog ==
    /\ cwd = << "w" >>
    /\ constructed = TRUE
    /\ known_paths = AppendOptPath(KnownPaths0, "model")
    /\ engine = "model"
    /\ original_dir = PathStr(TRUE, << "w" >>)
    /\ configfile = ConfigFile(FALSE, << >>, "model.ini")
    /\ scope = "out"
    /\ \E missing \in SUBSET MaybeMissing :
           native = [Loaded([start |-> 0, step |-> 1])
                        EXCEPT !.exports = NativeSymbols \ missing]
    /\ catalogue = LibFlag
    /\ mem = ZeroMemory(LibFlag)
    /\ result = [Outcome("__init__", "none", PyNone) EXCEPT !.name = "model"]
    /\ calls = << >>
    /\ prev = [dir |-> << "w" >>, life |-> "Unloaded"]
    /\ construct_dir = << "w" >>
    /\ life = "Loaded"
    /\ sum_dt = 0
    /\ args = NoWrite
    /\ via = "call"
    /\ pre = << >>
    /\ platform = "Linux"
    /\ environ = NoEnviron
    /\ files = InstalledInUsrLib
    /\ library = Join(PathStr(TRUE, << "usr", "lib" >>), libname("Linux", "model"))
    /\ emitted = << >>
    /\ sink = NoSink
    /\ dll_directory = NoDllDirectory

NextLog ==
    \/ \E logger \in Loggers : CallSetLogger(logger)
    \/ \E t \in 0..MaxTime : CallSetCurrentTime(t)
    \/ \E level \in NativeLevels, message \in Messages : NativeLog(level, message)
    \/ \E dt \in DtArgs : CallUpdate(dt)
    \/ CallGetCurrentTime
    \/ \E arg \in { Unset } : CallInitialize(arg)
    \/ CallFinalize

SpecLog == InitLog /\ [][NextLog]_vars

\* the host severity the specification gives for a native level
StatedSeverity(level) ==
    CASE level = 0 -> NOTSET
      [] level = 1 -> DEBUG
      [] level = 2 -> INFO
      [] level = 3 -> WARN
      [] level = 4 -> ERROR
      [] OTHER -> FATAL

\* C19: a log record of the native library (level 0..6, message m) is handed
\* exactly once to the logger that was passed to set_logger, at the severity
\* 0->NOTSET, 1->DEBUG, 2->INFO, 3->WARN, 4->ERROR, 5->FATAL, 6->FATAL.
C19_LogReachesSink ==
    result.op = "c_log" =>
        /\ Len(emitted) = 1
        /\ emitted[1].level = StatedSeverity(result.val.v)
        /\ emitted[1].message = result.name
        /\ emitted[1].logger = sink

\* C20: set_logger and set_current_time on a library that does not export the
\* entry point return normally after one warning, call nothing in the
\* library, register no callback and leave working directory and lifecycle
\* state as they were; update and get_current_time on a library without their
\* entry point raise AttributeError.
C20_SoftNoOps ==
    /\ (result.op \in { "set_logger", "set_current_time" }
          /\ result.op \notin native.exports) =>
           /\ result.raised = "none"
           /\ Len(emitted) = 1
           /\ emitted[1].level = WARN
           /\ calls = << >>
           /\ cwd = prev.dir
           /\ life = prev.life
    /\ "set_logger" \notin native.exports => native.callback = NoCallback
    /\ (result.op \in { "get_current_time", "update" } /\ result.raised = "none") =>
           result.op \in native.exports
    /\ (result.op = "get_current_time" /\ "get_current_time" \notin native.exports) =>
           result.raised = "AttributeError" /\ calls = << >>

\* set_current_time on a library that has set_logger but not set_current_time,
\* with the callback registered before left in place
C20_Witness ==
    /\ result.op = "set_current_time"
    /\ "set_current_time" \notin native.exports
    /\ result.raised = "none"
    /\ emitted = << LogRecord(ModuleLogger, WARN, "Tried to set current time") >>
    /\ native.callback = fortran_log_func
    /\ life = "Initialized"

-----------------------------------------------------------------------------
(* Specification of the writes by flattened index: an initialized bridge over *)
(* a library with one array, a host that writes one or two elements.          *)

\* the index vectors of a shape: one or two distinct row-major positions
IndexVectors(shape) ==
    { << i >> : i \in 0..(Prod(shape) - 1) }
        \cup { ij \in (0..(Prod(shape) - 1)) \X (0..(Prod(shape) - 1)) : ij[1] # ij[2] }

InitIdx ==
    /\ InitVar
    /\ catalogue \in { LibArr1, LibPair }

NextIdx ==
    \/ \E name \in NameArgs : CallGetVar(name)
    \/ \E name \in ArrayNames : \E index \in IndexVectors(get_var_shape(name)) :
           \E var \in HostArrays(TYPEMAP(get_var_type(name)), << Len(index) >>) :
               CallSetVarIndex(name, index, var)
    \/ \E name \in ArrayNames : \E index \in IndexVectors(get_var_shape(name)) :
           \E var \in HostArrays(TYPEMAP(get_var_type(name)), << Len(index) >>) :
               CallBaselineSetVarIndex(name, index, var)

SpecIdx == InitIdx /\ [][NextIdx]_vars

\* the operations that write by flattened index: the bridge's and the IBmi baseline
IndexOps == { "set_var_index", "IBmi.set_var_index" }

\* C11: set_var_index(name, index, value), on the bridge as in the IBmi
\* baseline, succeeds and leaves the variable with value[k] at row-major
\* position index[k] and its earlier elements everywhere else.
C11_IndexWrite ==
    result.op \in IndexOps =>
        /\ result.raised = "none"
        /\ LET shape == get_var_shape(args.name)
               before == Elems(AsArray(args.name, pre))
               after == Elems(AsArray(args.name, NativeGetVar(mem, args.name)))
               value == Elems(args.arr)
           IN \A e \in 1..Prod(shape) :
                  IF \E k \in DOMAIN args.start : args.start[k] = e - 1
                  THEN \E k \in DOMAIN args.start :
                           args.start[k] = e - 1 /\ after[e] = value[k]
                  ELSE after[e] = before[e]

-----------------------------------------------------------------------------
(* Specification of compound types, unallocated variables and shape buffers *)

\* the libraries with compound types, unallocated variables or shape entries
\* behind the rank
CompLibraries == { LibDirty, LibNull, LibPumps, LibGrid }

\* the variables of a scalar type
ScalarNames == { n \in DOMAIN catalogue : catalogue[n].type \in ScalarTags }

\* type names, host field indices, element ids, field names and values asked for
TypeArgs == CompoundNames \cup { "nope" }
FieldIndices == -1..3
IdArgs == { "p2", "zz" }
FieldArgs == { "capacity", "kind", "nope" }
FieldValues == { 0, 5 }

InitComp == InitLib(CompLibraries)

NextComp ==
    \/ \E name \in NameArgs : CallGetVar(name)
    \/ \E name \in ScalarNames : \E var \in FittingArrays(name) : CallSetVar(name, var)
    \/ \E name \in TypeArgs : \E index \in FieldIndices : CallInqCompoundField(name, index)
    \/ \E name \in NameArgs : CallMakeCompoundCtype(name)
    \/ \E name \in NameArgs : \E id \in IdArgs : \E field \in FieldArgs :
           \E value \in FieldValues : CallSetStructureField(name, id, field, value)

SpecComp == InitComp /\ [][NextComp]_vars

\* the native field indices the last operation asked inq_compound_field for
FieldsAsked == [k \in DOMAIN CallsTo("inq_compound_field") |-> CallsTo("inq_compound_field")[k].arg]

\* the operations that walk the fields of a variable's compound type
FieldLoopOps == { "get_var", "make_compound_ctype", "set_structure_field" }

\* the variable has a shape buffer entry that is not zero at or behind its rank
DirtyShape(name) ==
    /\ name \in DOMAIN catalogue
    /\ \E k \in (catalogue[name].rank + 1)..MAXDIMS : catalogue[name].shape[k] # 0

\* the variable is of a compound type and its rank, or the rank of a field of its
\* type, is 2 or more
UnsupportedCompound(name) ==
    /\ name \in DOMAIN catalogue
    /\ catalogue[name].type \in CompoundNames
    /\ \/ catalogue[name].rank >= 2
       \/ \E i \in DOMAIN Compound(catalogue[name].type) :
              Compound(catalogue[name].type)[i].rank >= 2

\* C12: get_var of a variable whose shape buffer holds a non-zero entry at or
\* behind the reported rank raises a consistency fault instead of cutting the
\* shape to the rank and carrying on.
C12_ShapeFault ==
    (result.op = "get_var" /\ DirtyShape(result.name)) => result.raised = "AssertionError"

\* C13: inq_compound_field(type, i) asks the native library for index i + 1 and
\* for a host index in 0..N-1 returns the declared field i + 1; the operations
\* that walk the fields ask for the native indices 1, 2, .. in order, each
\* once, never 0 or N + 1, all N of them when they succeed; the layout
\* make_compound_ctype builds lists the N declared fields in declared order.
C13_FieldIndexing ==
    /\ result.op = "inq_compound_field" =>
           LET i == args.start[1]
               N == NativeInqCompound(result.name)
           IN /\ FieldsAsked = << i + 1 >>
              /\ i \in 0..(N - 1) =>
                     /\ result.val.v.name = Compound(result.name)[i + 1].name
                     /\ result.val.v.type = Compound(result.name)[i + 1].type
                     /\ result.val.v.rank = Compound(result.name)[i + 1].rank
    /\ (result.op \in FieldLoopOps /\ result.name \in DOMAIN catalogue) =>
           LET N == NativeInqCompound(catalogue[result.name].type)
           IN /\ Len(FieldsAsked) <= N
              /\ \A k \in DOMAIN FieldsAsked : FieldsAsked[k] = k
              /\ (result.raised = "none" /\ "inq_compound" \in CalledFns(calls)) =>
                     Len(FieldsAsked) = N
    /\ (result.op = "make_compound_ctype" /\ result.name \in DOMAIN catalogue
           /\ result.raised = "none") =>
           LET declared == Compound(catalogue[result.name].type)
               layout == result.val.v.fields
           IN /\ Len(layout) = Len(declared)
              /\ \A k \in DOMAIN declared :
                     /\ layout[k].name = declared[k].name
                     /\ layout[k].ctype = declared[k].type

\* make_compound_ctype of the array of pumps: three fields, asked for as 1, 2, 3
C13_Witness ==
    /\ result.op = "make_compound_ctype"
    /\ result.name = "pumps"
    /\ result.raised = "none"
    /\ FieldsAsked = << 1, 2, 3 >>
    /\ Len(result.val.v.fields) = 3
    /\ result.val.v.fields[3].name = "open"

\* C14: get_var of a compound variable of rank 2 or more, or of a type with a
\* field of rank 2 or more, raises the assertion fault; native get_var and
\* set_var are not called and neither the native memory, the native library
\* nor the bridge's own state changes.
C14_UnsupportedCompound ==
    [][(result'.op = "get_var" /\ UnsupportedCompound(result'.name)) =>
           /\ result'.raised = "AssertionError"
           /\ CalledFns(calls') \cap { "get_var", "set_var" } = { }
           /\ UNCHANGED << mem, native, catalogue, cwd, life, constructed, original_dir,
                           configfile, known_paths, library, sink >>]_vars

\* get_var of a variable of a type with a field of rank 2 failed, and so did
\* get_var of a matrix of pumps before or after it
C14_Witness ==
    /\ result.op = "get_var"
    /\ result.name = "grid"
    /\ UnsupportedCompound("grid")
    /\ UnsupportedCompound("field")
    /\ result.raised = "AssertionError"

\* C15: when native get_var was called, get_var does not raise, and it returns
\* None exactly when the pointer it was handed is NULL: never for a buffer
\* that is allocated, zero-filled or not.
C15_NullIsNone ==
    (result.op = "get_var" /\ "get_var" \in CalledFns(calls)) =>
        /\ result.raised = "none"
        /\ result.name \in DOMAIN catalogue
        /\ (result.arr.dtype = "") <=> ~catalogue[result.name].allocated
        /\ result.arr.dtype = "" => result.val = PyNone

\* get_var of the variable that is not allocated returned None, next to a
\* zero-filled variable that is
C15_Witness ==
    /\ result.op = "get_var"
    /\ result.name = "late"
    /\ ~catalogue["late"].allocated
    /\ result.raised = "none"
    /\ result.arr = NoArray
    /\ catalogue["arr1"].allocated
    /\ \A b \in DOMAIN mem["arr1"] : mem["arr1"][b] = 0

-----------------------------------------------------------------------------
(* The search list of one instance among several *)

\* how often directory d occurs in a list of directories
Occurrences(paths, d) == Cardinality({ k \in DOMAIN paths : paths[k] = d })

\* the directories of a list that are named after an engine: '/opt/<engine>/lib'
EngineNamed(paths) ==
    { k \in DOMAIN paths :
        paths[k].abs /\ Len(paths[k].dir) = 3 /\ paths[k].dir[1] = "opt" }

\* C22: the fallback list an instance searches holds each fixed directory once
\* and one engine-named directory, that of its own engine, however many
\* bridges were constructed before it; its not-found message lists no more
\* than the environment's directories and these.
C22_SearchListPerInstance ==
    result.op = "__init__" =>
        /\ \A i \in DOMAIN KnownPaths0 : Occurrences(known_paths, KnownPaths0[i]) = 1
        /\ Cardinality(EngineNamed(known_paths)) = 1
        /\ \A k \in EngineNamed(known_paths) : known_paths[k] = OptPath(result.name)
        /\ result.raised = "RuntimeError" =>
               Len(result.val.v.listed) =
                   Len(environ[PathVariable(platform)]) + Len(KnownPaths0) + 1

-----------------------------------------------------------------------------
(* Loading the library on Windows *)

\* C21: on Windows, when __init__ has loaded the library or failed to load
\* it, the process working directory is the working directory from before the
\* call.
C21_LoadRestoresDirectory ==
    (result.op = "__init__" /\ platform = "Windows") => cwd = prev.dir

====
